---- MODULE Spec2Model ----
(***************************************************************************)
(* Model of the remote build-control client of elbe                        *)
(* (src/elbepack/soapclient.py): the block upload and the chunked          *)
(* download of ElbeSoapClient, the acknowledged upload of the              *)
(* configuration document (set_xml), the busy stream (wait_busy) and the   *)
(* session set-up (connect); and of the pbuilder pipelines built on the   *)
(* control commands (src/elbepack/pbuilderaction.py).                      *)
(*                                                                         *)
(* Text (str) values are sequences of character codes; file contents are   *)
(* sequences of bytes (0..255).                                            *)
(***************************************************************************)
EXTENDS Integers, Sequences, FiniteSets, TLC

\* ------------------------------------------------------------------ bounds
\* Block size of the transfers, in bytes.  The program reads 1024 * 1024
\* bytes per block (soapclient.py:112 and :167); the model scales the block
\* down so that files of several blocks stay small.
size == 2
\* Longest local file, in bytes.
MaxFileLen == 5
\* Byte values the file contents are drawn from.
ByteVals == {75, 255}
\* Longest configuration document given to set_xml, in bytes.
MaxXmlLen == 5
\* Largest chunk index the remote upload_file grants.
MaxIndex == 2
\* Most upload_file requests of one set_xml the model follows.
MaxRequests == 4
\* Most get_project_busy polls of one wait_busy the model follows.
MaxPolls == 4
\* Largest connect-retry budget (retries) a client is constructed with.
MaxRetries == 3
\* Most orig files (opt.origfile) given to the build pipeline.
MaxOrig == 2

\* --------------------------------------------------------------- constants
\* retry = 5 (soapclient.py:85)
RetryBudget == 5

VARIABLES
    scenario,   \* which operation of the client this behaviour runs
    file,       \* content of the local file given to _upload_file
    f_pos,      \* read offset of f in _upload_file
    upc,        \* _upload_file: "idle", "loop", "done"
    appended,   \* data of the append calls issued, in order (the remote store)
    dpc,        \* download_file: "idle", "loop", "returned", "exit170",
                \*                "UnboundLocalError"
    part,       \* download_file: local part
    retry,      \* download_file: local retry
    ret,        \* download_file: local ret (a str), meaningful when retBound
    retBound,   \* download_file: whether ret has been assigned
    fp,         \* bytes written to the destination file
    fpOpen,     \* whether the destination file is open
    getReqs,    \* part argument of every get_file request, in order
    outcomes,   \* per get_file request: TRUE = replied, FALSE = BadStatusLine
    xml,        \* set_xml: content of the configuration document
    has_target, \* set_xml: x.has('target')
    x_pos,      \* set_xml: read offset of fp
    xpart,      \* set_xml: local part
    spc,        \* set_xml: "idle", "start", "loop", "returned", "ValueError",
                \*          "RuntimeError"
    upReqs,     \* the upload_file requests issued: [blob, part], in order
    upReplies,  \* the reply to every upload_file request, in order
    wpc,        \* wait_busy: "idle", "poll", "status", "done", "CliError"
    received,   \* wait_busy: the replies of get_project_busy, in order
    nPolls,     \* wait_busy: get_project_busy requests issued
    nErrors,    \* wait_busy: polls that raised socket.error
    yielded,    \* wait_busy: the items yielded, in order
    nGetProject, \* wait_busy: get_project requests issued
    prj_status, \* wait_busy: prj.status of the get_project reply
    cli_code,   \* wait_busy: code of the CliError raised, 0 when none
    cpc,        \* connect: "idle", "loop", "get_version", "login",
                \*          "connected", "network_error",
                \*          "ElbeVersionMismatch", "login_error"
    retries,    \* connect: self._retries
    current_retries, \* connect: local current_retries
    attempts,   \* connect: per Client(...) call, TRUE = connected, FALSE = raised
    server_version, \* connect: reply of get_version, "" before it
    nVersion,   \* connect: get_version requests issued
    nLogin,     \* connect: login requests issued
    tag,        \* pipeline: tag of the PBuilderAction executed, "" when none
    opt_xmlfile,  \* pipeline: opt.xmlfile is given
    opt_project,  \* pipeline: opt.project is given
    opt_cross,    \* pipeline: opt.cross
    opt_noccache, \* pipeline: opt.noccache
    opt_skip_download, \* pipeline: opt.skip_download
    n_origfile, \* pipeline: len(opt.origfile)
    orig_i,     \* pipeline: orig files the loop has gone through
    ppc,        \* pipeline: the step execute() is at, or "idle", "finished",
                \*           "exit" (sys.exit), "CalledProcessError" (uncaught)
    cmds,       \* pipeline: the commands run: [name, args, ok], in order
    failed,     \* pipeline: the step that failed, "" when none
    exit_status, \* pipeline: status of the process once execute() has ended
    mpc,        \* registry: the register statement the loading of the module
                \*           is at, or "idle", "loaded", "constructed",
                \*           "KeyError"
    actiondict, \* registry: PBuilderAction.actiondict, tag -> class
    node,       \* registry: argument of PBuilderAction(node), "" before it
    handler     \* registry: class of the object PBuilderAction(node) made

transferVars == <<file, f_pos, upc, appended, dpc, part, retry, ret, retBound,
                  fp, fpOpen, getReqs, outcomes>>

setXmlVars == <<xml, has_target, x_pos, xpart, spc, upReqs, upReplies>>

waitBusyVars == <<wpc, received, nPolls, nErrors, yielded, nGetProject,
                  prj_status, cli_code>>

connectVars == <<cpc, retries, current_retries, attempts, server_version,
                 nVersion, nLogin>>

optVars == <<tag, opt_xmlfile, opt_project, opt_cross, opt_noccache,
             opt_skip_download, n_origfile>>

pipelineVars == <<optVars, orig_i, ppc, cmds, failed, exit_status>>

registryVars == <<mpc, actiondict, node, handler>>

vars == <<scenario, transferVars, setXmlVars, waitBusyVars, connectVars,
          pipelineVars, registryVars>>

\* ------------------------------------------------------------ pure helpers
RECURSIVE SeqsUpTo(_, _)
\* All sequences over S of length at most n.
SeqsUpTo(S, n) ==
    IF n = 0 THEN {<<>>}
    ELSE LET shorter == SeqsUpTo(S, n - 1)
         IN  shorter \cup {Append(s, x) : s \in shorter, x \in S}

Min(a, b) == IF a < b THEN a ELSE b

\* The text 'EndOfFile' (soapclient.py:103), as character codes.
EndOfFile == <<69, 110, 100, 79, 102, 70, 105, 108, 101>>

\* Character of the base64 alphabet for the 6-bit value v.
b64char(v) ==
    IF v < 26 THEN 65 + v
    ELSE IF v < 52 THEN 97 + (v - 26)
    ELSE IF v < 62 THEN 48 + (v - 52)
    ELSE IF v = 62 THEN 43
    ELSE 47

\* 6-bit value of a base64 character, -1 for any other character.
b64val(c) ==
    IF c >= 65 /\ c <= 90 THEN c - 65
    ELSE IF c >= 97 /\ c <= 122 THEN c - 97 + 26
    ELSE IF c >= 48 /\ c <= 57 THEN c - 48 + 52
    ELSE IF c = 43 THEN 62
    ELSE IF c = 47 THEN 63
    ELSE -1

RECURSIVE b64groups(_)
\* The base64 quads of the 3-byte groups of b, '=' (61) padded.
b64groups(b) ==
    IF Len(b) = 0 THEN <<>>
    ELSE IF Len(b) = 1 THEN
        <<b64char(b[1] \div 4), b64char((b[1] % 4) * 16), 61, 61>>
    ELSE IF Len(b) = 2 THEN
        <<b64char(b[1] \div 4), b64char((b[1] % 4) * 16 + b[2] \div 16),
          b64char((b[2] % 16) * 4), 61>>
    ELSE
        <<b64char(b[1] \div 4), b64char((b[1] % 4) * 16 + b[2] \div 16),
          b64char((b[2] % 16) * 4 + b[3] \div 64), b64char(b[3] % 64)>>
        \o b64groups(SubSeq(b, 4, Len(b)))

\* binascii.b2a_base64(b), decoded to str: the base64 text and a newline.
b2a_base64(b) == b64groups(b) \o <<10>>

RECURSIVE b64bytes(_)
\* The bytes of a text of base64 quads.
b64bytes(q) ==
    IF Len(q) < 4 THEN <<>>
    ELSE LET v1 == b64val(q[1])
             v2 == b64val(q[2])
             v3 == b64val(q[3])
             v4 == b64val(q[4])
         IN  IF q[3] = 61 THEN <<v1 * 4 + v2 \div 16>>
             ELSE IF q[4] = 61 THEN
                 <<v1 * 4 + v2 \div 16, (v2 % 16) * 16 + v3 \div 4>>
             ELSE
                 <<v1 * 4 + v2 \div 16, (v2 % 16) * 16 + v3 \div 4,
                   (v3 % 4) * 64 + v4>>
                 \o b64bytes(SubSeq(q, 5, Len(q)))

\* binascii.a2b_base64(s): characters outside the alphabet (the newline)
\* are skipped, the rest is decoded quad by quad.
a2b_base64(s) ==
    b64bytes(SelectSeq(s, LAMBDA c : b64val(c) >= 0 \/ c = 61))

\* --------------------------------------------------- ElbeSoapClient._upload_file
\* f.read(size) at offset pos.
read(f, pos, n) == SubSeq(f, pos + 1, Min(pos + n, Len(f)))

\* Mutant of upload_loop_ends: the length of the encoded block is tested.
upload_loop_ends_encoded(bin_data) == Len(b2a_base64(bin_data)) # size

\* Mutant of upload_loop_ends: the loop ends on an empty read only.
upload_loop_ends_on_empty(bin_data) == Len(bin_data) = 0

\* The test that ends the loop of _upload_file (soapclient.py:126).
upload_loop_ends(bin_data) == Len(bin_data) # size

\* One iteration of the loop of _upload_file: read a block, encode it,
\* append it remotely, leave the loop after a short block.
upload_file_block ==
    /\ scenario = "transfer"
    /\ upc = "loop"
    /\ LET bin_data == read(file, f_pos, size)
           data == b2a_base64(bin_data)
       IN  /\ f_pos' = f_pos + Len(bin_data)
           /\ appended' = Append(appended, data)
           /\ upc' = IF upload_loop_ends(bin_data) THEN "done" ELSE "loop"
    /\ UNCHANGED <<scenario, file, dpc, part, retry, ret, retBound, fp, fpOpen,
                   getReqs, outcomes>>
    /\ UNCHANGED <<setXmlVars, waitBusyVars, connectVars, pipelineVars, registryVars>>

\* ---------------------------------------------------- ElbeSoapClient.download_file
\* The remote get_file: the blocks appended by the upload, served back in
\* arrival order, then 'EndOfFile'.
get_file(p) == IF p < Len(appended) THEN appended[p + 1] ELSE EndOfFile

\* fp = open(dst_fname, 'wb'); part = 0; retry = 5
download_file ==
    /\ scenario = "transfer"
    /\ upc = "done"
    /\ dpc = "idle"
    /\ dpc' = "loop"
    /\ part' = 0
    /\ retry' = RetryBudget
    /\ fp' = <<>>
    /\ fpOpen' = TRUE
    /\ UNCHANGED <<scenario, file, f_pos, upc, appended, ret, retBound,
                   getReqs, outcomes>>
    /\ UNCHANGED <<setXmlVars, waitBusyVars, connectVars, pipelineVars, registryVars>>

\* Mutant of download_tail: part advances by two after a written chunk.
download_tail_skip(r, bound) ==
    IF ~bound THEN
        /\ dpc' = "UnboundLocalError"
        /\ UNCHANGED <<fp, fpOpen, part>>
    ELSE IF r = EndOfFile THEN
        /\ dpc' = "returned"
        /\ fpOpen' = FALSE
        /\ UNCHANGED <<fp, part>>
    ELSE
        /\ dpc' = "loop"
        /\ fp' = fp \o a2b_base64(r)
        /\ part' = part + 2
        /\ UNCHANGED fpOpen

\* Lines 103-108, run with the value r of ret (bound or not): the end of
\* the file closes the destination, anything else is decoded and written.
download_tail(r, bound) ==
    IF ~bound THEN
        /\ dpc' = "UnboundLocalError"
        /\ UNCHANGED <<fp, fpOpen, part>>
    ELSE IF r = EndOfFile THEN
        /\ dpc' = "returned"
        /\ fpOpen' = FALSE
        /\ UNCHANGED <<fp, part>>
    ELSE
        /\ dpc' = "loop"
        /\ fp' = fp \o a2b_base64(r)
        /\ part' = part + 1
        /\ UNCHANGED fpOpen

\* One iteration of the loop whose get_file request is answered.
download_reply ==
    /\ scenario = "transfer"
    /\ dpc = "loop"
    /\ getReqs' = Append(getReqs, part)
    /\ outcomes' = Append(outcomes, TRUE)
    /\ ret' = get_file(part)
    /\ retBound' = TRUE
    /\ download_tail(get_file(part), TRUE)
    /\ UNCHANGED <<scenario, file, f_pos, upc, appended, retry>>
    /\ UNCHANGED <<setXmlVars, waitBusyVars, connectVars, pipelineVars, registryVars>>

\* What the handler of BadStatusLine does once the budget is not exhausted
\* (soapclient.py:98-103): control leaves the except clause and reaches
\* line 103 with ret as the previous iteration left it.
after_failed_request == download_tail(ret, retBound)

\* Mutant of download_BadStatusLine: the destination file is removed when
\* the transfer is given up.
download_BadStatusLine_unlinks ==
    /\ scenario = "transfer"
    /\ dpc = "loop"
    /\ getReqs' = Append(getReqs, part)
    /\ outcomes' = Append(outcomes, FALSE)
    /\ retry' = retry - 1
    /\ IF retry - 1 = 0 THEN
           /\ fpOpen' = FALSE
           /\ dpc' = "exit170"
           /\ fp' = <<>>
           /\ UNCHANGED part
       ELSE after_failed_request
    /\ UNCHANGED <<scenario, file, f_pos, upc, appended, ret, retBound>>
    /\ UNCHANGED <<setXmlVars, waitBusyVars, connectVars, pipelineVars, registryVars>>

\* One iteration of the loop whose get_file request raises BadStatusLine.
download_BadStatusLine ==
    /\ scenario = "transfer"
    /\ dpc = "loop"
    /\ getReqs' = Append(getReqs, part)
    /\ outcomes' = Append(outcomes, FALSE)
    /\ retry' = retry - 1
    /\ IF retry - 1 = 0 THEN
           /\ fpOpen' = FALSE
           /\ dpc' = "exit170"
           /\ UNCHANGED <<fp, part>>
       ELSE after_failed_request
    /\ UNCHANGED <<scenario, file, f_pos, upc, appended, ret, retBound>>
    /\ UNCHANGED <<setXmlVars, waitBusyVars, connectVars, pipelineVars, registryVars>>

\* -------------------------------------------------------- ElbeSoapClient.set_xml
\* The replies of the remote upload_file: -1 (project busy), -2 (upload
\* finished) or the index of the next chunk.
Replies == {-2, -1} \cup 0..MaxIndex

\* x = ElbeXML(...); the document must have a <target> (soapclient.py:164).
set_xml ==
    /\ scenario = "set_xml"
    /\ spc = "start"
    /\ spc' = IF has_target THEN "loop" ELSE "ValueError"
    /\ xpart' = 0
    /\ x_pos' = 0
    /\ UNCHANGED <<scenario, xml, has_target, upReqs, upReplies>>
    /\ UNCHANGED <<transferVars, waitBusyVars, connectVars, pipelineVars, registryVars>>

\* Mutant of upload_index: the client numbers its requests itself.
upload_index_free_running(xml_base64, p) ==
    IF Len(xml_base64) = 1 THEN -1 ELSE Len(upReqs)

\* The index an upload_file request carries (soapclient.py:178-187): -1
\* with an empty encoded block (the newline alone), else the local part.
upload_index(xml_base64, p) == IF Len(xml_base64) = 1 THEN -1 ELSE p

\* Mutant of stored_part: the reply is dropped, part keeps its value.
stored_part_stale(reply) == xpart

\* part = self.service.upload_file(...): the reply becomes the local part.
stored_part(reply) == reply

\* Mutant of after_reply: -1 is not tested.
after_reply_no_reject(p) == IF p = -2 THEN "returned" ELSE "loop"

\* Mutant of after_reply: -2 is not tested.
after_reply_no_complete(p) == IF p = -1 THEN "RuntimeError" ELSE "loop"

\* Mutant of after_reply: the loop also ends once the document was read to
\* its end.
after_reply_ends_at_eof(p) ==
    IF p = -1 THEN "RuntimeError"
    ELSE IF p = -2 \/ x_pos >= Len(xml) THEN "returned"
    ELSE "loop"

\* The tests on part that follow the request (soapclient.py:188-192).
after_reply(p) ==
    IF p = -1 THEN "RuntimeError"
    ELSE IF p = -2 THEN "returned"
    ELSE "loop"

\* One iteration of the loop of set_xml: read and encode a block, send it
\* and act on the reply.
set_xml_block ==
    /\ scenario = "set_xml"
    /\ spc = "loop"
    /\ Len(upReqs) < MaxRequests
    /\ \E reply \in Replies :
           LET block == read(xml, x_pos, size)
               xml_base64 == b2a_base64(block)
           IN  /\ x_pos' = x_pos + Len(block)
               /\ upReqs' = Append(upReqs,
                      [blob |-> xml_base64,
                       part |-> upload_index(xml_base64, xpart)])
               /\ upReplies' = Append(upReplies, reply)
               /\ xpart' = stored_part(reply)
               /\ spc' = after_reply(stored_part(reply))
    /\ UNCHANGED <<scenario, xml, has_target>>
    /\ UNCHANGED <<transferVars, waitBusyVars, connectVars, pipelineVars, registryVars>>

\* ------------------------------------------------------ ElbeSoapClient.wait_busy
\* The text 'ELBE-FINISH' that ends the busy stream (soapclient.py:146).
ELBE_FINISH == "ELBE-FINISH"

\* The replies of the remote get_project_busy.
Messages == {"", ELBE_FINISH, "build started", "build running"}

\* The values of prj.status.
Statuses == {"build_done", "build_failed", "needs_build"}

\* Mutant of poll_step: an empty message is not tested.
poll_step_no_empty_test(msg) ==
    IF msg = ELBE_FINISH THEN "break" ELSE "yield"

\* What one iteration does with the message received (soapclient.py:142-149).
poll_step(msg) ==
    IF msg = "" THEN "continue"
    ELSE IF msg = ELBE_FINISH THEN "break"
    ELSE "yield"

\* One iteration of the loop of wait_busy whose poll is answered.
wait_busy_poll ==
    /\ scenario = "wait_busy"
    /\ wpc = "poll"
    /\ nPolls < MaxPolls
    /\ \E msg \in Messages :
           /\ received' = Append(received, msg)
           /\ yielded' = IF poll_step(msg) = "yield"
                         THEN Append(yielded, msg) ELSE yielded
           /\ wpc' = IF poll_step(msg) = "break" THEN "status" ELSE "poll"
    /\ nPolls' = nPolls + 1
    /\ UNCHANGED <<scenario, nErrors, nGetProject, prj_status, cli_code>>
    /\ UNCHANGED <<transferVars, setXmlVars, connectVars, pipelineVars, registryVars>>

\* Mutant of wait_busy_socket_error: the error ends the loop.
wait_busy_socket_error_gives_up ==
    /\ scenario = "wait_busy"
    /\ wpc = "poll"
    /\ nPolls < MaxPolls
    /\ nPolls' = nPolls + 1
    /\ nErrors' = nErrors + 1
    /\ wpc' = "status"
    /\ UNCHANGED <<scenario, received, yielded, nGetProject, prj_status,
                   cli_code>>
    /\ UNCHANGED <<transferVars, setXmlVars, connectVars, pipelineVars, registryVars>>

\* One iteration of the loop of wait_busy whose poll raises socket.error:
\* a warning is logged and the loop continues.
wait_busy_socket_error ==
    /\ scenario = "wait_busy"
    /\ wpc = "poll"
    /\ nPolls < MaxPolls
    /\ nPolls' = nPolls + 1
    /\ nErrors' = nErrors + 1
    /\ UNCHANGED <<scenario, wpc, received, yielded, nGetProject, prj_status,
                   cli_code>>
    /\ UNCHANGED <<transferVars, setXmlVars, connectVars, pipelineVars, registryVars>>

\* Mutant of build_succeeded: only 'build_failed' counts as a failure.
build_succeeded_unless_failed(status) == status # "build_failed"

\* The test of the final status (soapclient.py:155).
build_succeeded(status) == status = "build_done"

\* After the loop: the status of the project is queried, and anything but
\* 'build_done' raises CliError(191, ...).
wait_busy_get_project ==
    /\ scenario = "wait_busy"
    /\ wpc = "status"
    /\ \E status \in Statuses :
           /\ prj_status' = status
           /\ wpc' = IF build_succeeded(status) THEN "done" ELSE "CliError"
           /\ cli_code' = IF build_succeeded(status) THEN 0 ELSE 191
    /\ nGetProject' = nGetProject + 1
    /\ UNCHANGED <<scenario, received, nPolls, nErrors, yielded>>
    /\ UNCHANGED <<transferVars, setXmlVars, connectVars, pipelineVars, registryVars>>

\* -------------------------------------------------------- ElbeSoapClient.connect
\* elbe_version, the version of the client (soapclient.py:20).
elbe_version == "client-version"

\* The versions a remote may report.
Versions == {elbe_version, "other-version"}

\* Mutant of retries_exhausted: the budget counts attempts, not retries.
retries_exhausted_at_budget(cur, budget) == cur >= budget

\* The test that re-raises the network error (soapclient.py:60).
retries_exhausted(cur, budget) == cur > budget

\* One iteration of the connect loop whose Client(...) raises URLError,
\* socket.error or BadStatusLine: re-raised once the retries are used up,
\* else slept over and tried again.
connect_Client_raises ==
    /\ scenario = "connect"
    /\ cpc = "loop"
    /\ current_retries' = current_retries + 1
    /\ attempts' = Append(attempts, FALSE)
    /\ cpc' = IF retries_exhausted(current_retries + 1, retries)
              THEN "network_error" ELSE "loop"
    /\ UNCHANGED <<scenario, retries, server_version, nVersion, nLogin>>
    /\ UNCHANGED <<transferVars, setXmlVars, waitBusyVars, pipelineVars, registryVars>>

\* One iteration of the connect loop whose Client(...) returns: control is
\* set, the loop ends and self.service is bound.
connect_Client ==
    /\ scenario = "connect"
    /\ cpc = "loop"
    /\ current_retries' = current_retries + 1
    /\ attempts' = Append(attempts, TRUE)
    /\ cpc' = "get_version"
    /\ UNCHANGED <<scenario, retries, server_version, nVersion, nLogin>>
    /\ UNCHANGED <<transferVars, setXmlVars, waitBusyVars, pipelineVars, registryVars>>

\* Mutant of version_mismatch: no version is refused.
version_mismatch_never(client_version, remote_version) == FALSE

\* ElbeVersionMismatch.check: the versions differ (soapclient.py:34).
version_mismatch(client_version, remote_version) ==
    client_version # remote_version

\* ElbeVersionMismatch.check(elbe_version, self.service.get_version())
connect_get_version ==
    /\ scenario = "connect"
    /\ cpc = "get_version"
    /\ \E v \in Versions :
           /\ server_version' = v
           /\ cpc' = IF version_mismatch(elbe_version, v)
                     THEN "ElbeVersionMismatch" ELSE "login"
    /\ nVersion' = nVersion + 1
    /\ UNCHANGED <<scenario, retries, current_retries, attempts, nLogin>>
    /\ UNCHANGED <<transferVars, setXmlVars, waitBusyVars, pipelineVars, registryVars>>

\* self.service.login(self._user, self._passwd): a refused login raises
\* out of connect.
connect_login ==
    /\ scenario = "connect"
    /\ cpc = "login"
    /\ \E accepted \in BOOLEAN :
           cpc' = IF accepted THEN "connected" ELSE "login_error"
    /\ nLogin' = nLogin + 1
    /\ UNCHANGED <<scenario, retries, current_retries, attempts,
                   server_version, nVersion>>
    /\ UNCHANGED <<transferVars, setXmlVars, waitBusyVars, pipelineVars, registryVars>>

\* ------------------------------------------------- pbuilderaction: pipelines
\* The variables of the client operations, which no pipeline step touches.
clientVars == <<scenario, transferVars, setXmlVars, waitBusyVars, connectVars,
                registryVars>>

\* The status each step of each pipeline ends the process with when it
\* fails: the sys.exit(...) calls of CreateAction.execute,
\* UpdateAction.execute and BuildAction.execute.
StatusTable ==
    [create |-> [create_project |-> 152, set_xml |-> 153, preprocess |-> 154,
                 usage |-> 155, build_pbuilder |-> 156, wait_busy |-> 157],
     update |-> [usage |-> 158, update_pbuilder |-> 159],
     build  |-> [create_project |-> 160, build_pbuilder |-> 161,
                 wait_busy_pbuilder |-> 162, usage |-> 163, tar |-> 164,
                 set_orig |-> 165, set_pdebuild |-> 166, wait_busy |-> 167,
                 list_files |-> 168, get_files |-> 169]]

\* Mutant of failure_status: the handler of set_pdebuild was copied from
\* the one of set_orig with its status.
failure_status_copied(t, step) ==
    IF t = "build" /\ step = "set_pdebuild"
    THEN StatusTable[t]["set_orig"]
    ELSE StatusTable[t][step]

\* The argument of the sys.exit call that handles the failure of step.
failure_status(t, step) == StatusTable[t][step]

\* sys.exit(failure_status) in the handler of the failure of step.
sys_exit(step) ==
    /\ ppc' = "exit"
    /\ failed' = step
    /\ exit_status' = failure_status(tag, step)

\* The command runner (system, command_out_stderr, PreprocessWrapper): the
\* command is run and either succeeds or fails (non-zero exit, reported as
\* CalledProcessError or as ret != 0).
run(name, args, ok) ==
    cmds' = Append(cmds, [name |-> name, args |-> args, ok |-> ok])

\* try: <command> / except subprocess.CalledProcessError: sys.exit(...), and
\* the ret != 0 test after command_out_stderr: on success execute() goes on
\* with the step next.
try_step(step, name, args, next) ==
    \E ok \in BOOLEAN :
        /\ run(name, args, ok)
        /\ IF ok THEN /\ ppc' = next
                      /\ UNCHANGED <<failed, exit_status>>
           ELSE sys_exit(step)

\* crossopt (pbuilderaction.py:67-69, 182-184)
crossopt == IF opt_cross THEN "--cross" ELSE ""

\* ccacheopt (pbuilderaction.py:70-75)
ccacheopt == IF opt_noccache THEN "--no-ccache" ELSE "--ccache-size"

\* CreateAction.execute up to its first command: the options decide where
\* the project comes from; neither --xmlfile nor --project is a usage error.
create_execute ==
    /\ tag = "create"
    /\ ppc = "start"
    /\ IF opt_xmlfile THEN
           /\ ppc' = "preprocess"
           /\ UNCHANGED <<failed, exit_status>>
       ELSE IF opt_project THEN
           /\ ppc' = "build_pbuilder"
           /\ UNCHANGED <<failed, exit_status>>
       ELSE sys_exit("usage")
    /\ UNCHANGED <<clientVars, optVars, orig_i, cmds>>

\* with PreprocessWrapper(opt.xmlfile, opt) as ppw: a failed preprocess
\* raises CalledProcessError, handled with sys.exit(154).
create_preprocess ==
    /\ tag = "create"
    /\ ppc = "preprocess"
    /\ try_step("preprocess", "preprocess", <<>>, "create_project")
    /\ UNCHANGED <<clientVars, optVars, orig_i>>

\* elbe control create_project
create_create_project ==
    /\ tag = "create"
    /\ ppc = "create_project"
    /\ try_step("create_project", "create_project", <<>>, "set_xml")
    /\ UNCHANGED <<clientVars, optVars, orig_i>>

\* elbe control set_xml "{prjdir}" "{ppw.preproc}"
create_set_xml ==
    /\ tag = "create"
    /\ ppc = "set_xml"
    /\ try_step("set_xml", "set_xml", <<"preproc">>, "build_pbuilder")
    /\ UNCHANGED <<clientVars, optVars, orig_i>>

\* elbe control build_pbuilder "{prjdir}" {crossopt} {ccacheopt} {ccachesize}
create_build_pbuilder ==
    /\ tag = "create"
    /\ ppc = "build_pbuilder"
    /\ try_step("build_pbuilder", "build_pbuilder", <<crossopt, ccacheopt>>,
                "wait_busy")
    /\ UNCHANGED <<clientVars, optVars, orig_i>>

\* elbe control wait_busy "{prjdir}", the last step of the pipeline.
create_wait_busy ==
    /\ tag = "create"
    /\ ppc = "wait_busy"
    /\ try_step("wait_busy", "wait_busy", <<>>, "finished")
    /\ UNCHANGED <<clientVars, optVars, orig_i>>

\* UpdateAction.execute up to its command: --project is required.
update_execute ==
    /\ tag = "update"
    /\ ppc = "start"
    /\ IF ~opt_project THEN sys_exit("usage")
       ELSE /\ ppc' = "update_pbuilder"
            /\ UNCHANGED <<failed, exit_status>>
    /\ UNCHANGED <<clientVars, optVars, orig_i, cmds>>

\* Mutant of update_update_pbuilder: the pipeline goes on to wait for the
\* project, as the create pipeline does.
update_update_pbuilder_waits ==
    /\ tag = "update"
    /\ ppc = "update_pbuilder"
    /\ try_step("update_pbuilder", "update_pbuilder", <<>>, "wait_busy")
    /\ UNCHANGED <<clientVars, optVars, orig_i>>

\* elbe control update_pbuilder "{prjdir}", the only step of the pipeline.
update_update_pbuilder ==
    /\ tag = "update"
    /\ ppc = "update_pbuilder"
    /\ try_step("update_pbuilder", "update_pbuilder", <<>>, "finished")
    /\ UNCHANGED <<clientVars, optVars, orig_i>>

\* Mutant of build_execute: a missing project is not tested.
build_execute_no_usage ==
    /\ tag = "build"
    /\ ppc = "start"
    /\ ppc' = IF opt_xmlfile THEN "create_project" ELSE "rm_log"
    /\ UNCHANGED <<failed, exit_status>>
    /\ UNCHANGED <<clientVars, optVars, orig_i, cmds>>

\* BuildAction.execute up to its first command.
build_execute ==
    /\ tag = "build"
    /\ ppc = "start"
    /\ IF opt_xmlfile THEN
           /\ ppc' = "create_project"
           /\ UNCHANGED <<failed, exit_status>>
       ELSE IF opt_project THEN
           /\ ppc' = "rm_log"
           /\ UNCHANGED <<failed, exit_status>>
       ELSE sys_exit("usage")
    /\ UNCHANGED <<clientVars, optVars, orig_i, cmds>>

\* elbe control create_project --retries 60 "{opt.xmlfile}"
build_create_project ==
    /\ tag = "build"
    /\ ppc = "create_project"
    /\ try_step("create_project", "create_project",
                <<"--retries 60", "xmlfile">>, "build_pbuilder")
    /\ UNCHANGED <<clientVars, optVars, orig_i>>

\* elbe control build_pbuilder "{prjdir}"
build_build_pbuilder ==
    /\ tag = "build"
    /\ ppc = "build_pbuilder"
    /\ try_step("build_pbuilder", "build_pbuilder", <<>>, "wait_busy_pbuilder")
    /\ UNCHANGED <<clientVars, optVars, orig_i>>

\* elbe control wait_busy "{prjdir}" after build_pbuilder
build_wait_busy_pbuilder ==
    /\ tag = "build"
    /\ ppc = "wait_busy_pbuilder"
    /\ try_step("wait_busy_pbuilder", "wait_busy", <<>>, "tar")
    /\ UNCHANGED <<clientVars, optVars, orig_i>>

\* elbe control rm_log {prjdir}: run outside any try, so its
\* CalledProcessError leaves execute() uncaught (the interpreter then ends
\* with a traceback and status 1).
build_rm_log ==
    /\ tag = "build"
    /\ ppc = "rm_log"
    /\ \E ok \in BOOLEAN :
           /\ run("rm_log", <<>>, ok)
           /\ IF ok THEN /\ ppc' = "tar"
                         /\ UNCHANGED <<failed, exit_status>>
              ELSE /\ ppc' = "CalledProcessError"
                   /\ failed' = "rm_log"
                   /\ exit_status' = 1
    /\ UNCHANGED <<clientVars, optVars, orig_i>>

\* Mutant of build_tar: the source archive is pushed right after it was
\* made, the orig files are left out.
build_tar_skips_orig ==
    /\ tag = "build"
    /\ ppc = "tar"
    /\ try_step("tar", "tar", <<>>, "set_pdebuild")
    /\ UNCHANGED <<clientVars, optVars, orig_i>>

\* tar cfz "{tmp.fname("pdebuild.tar.gz")}" .
build_tar ==
    /\ tag = "build"
    /\ ppc = "tar"
    /\ try_step("tar", "tar", <<>>,
                IF n_origfile > 0 THEN "set_orig" ELSE "set_pdebuild")
    /\ UNCHANGED <<clientVars, optVars, orig_i>>

\* Mutant of build_set_orig: a failed push is reported and the loop goes on.
build_set_orig_goes_on ==
    /\ tag = "build"
    /\ ppc = "set_orig"
    /\ \E ok \in BOOLEAN : run("set_orig", <<orig_i + 1>>, ok)
    /\ ppc' = IF orig_i + 1 < n_origfile THEN "set_orig" ELSE "set_pdebuild"
    /\ orig_i' = orig_i + 1
    /\ UNCHANGED <<failed, exit_status>>
    /\ UNCHANGED <<clientVars, optVars>>

\* One iteration of for of in opt.origfile:
\* elbe control set_orig "{prjdir}" "{of}"
build_set_orig ==
    /\ tag = "build"
    /\ ppc = "set_orig"
    /\ try_step("set_orig", "set_orig", <<orig_i + 1>>,
                IF orig_i + 1 < n_origfile THEN "set_orig" ELSE "set_pdebuild")
    /\ orig_i' = orig_i + 1
    /\ UNCHANGED <<clientVars, optVars>>

\* elbe control set_pdebuild ... {crossopt} "{prjdir}" "pdebuild.tar.gz"
build_set_pdebuild ==
    /\ tag = "build"
    /\ ppc = "set_pdebuild"
    /\ try_step("set_pdebuild", "set_pdebuild", <<crossopt>>, "wait_busy")
    /\ UNCHANGED <<clientVars, optVars, orig_i>>

\* elbe control wait_busy "{prjdir}" after set_pdebuild
build_wait_busy ==
    /\ tag = "build"
    /\ ppc = "wait_busy"
    /\ try_step("wait_busy", "wait_busy", <<>>, "get_files")
    /\ UNCHANGED <<clientVars, optVars, orig_i>>

\* The step that lists (opt.skip_download) or downloads the results.
files_step == IF opt_skip_download THEN "list_files" ELSE "get_files"

\* elbe control --pbuilder-only get_files [--output "{opt.outdir}"]
\* "{prjdir}": its failure is followed by the dump of the log file.
build_get_files ==
    /\ tag = "build"
    /\ ppc = "get_files"
    /\ \E ok \in BOOLEAN :
           /\ run("get_files",
                  IF opt_skip_download THEN <<>> ELSE <<"--output">>, ok)
           /\ ppc' = IF ok THEN "finished" ELSE "dump_file"
           /\ failed' = IF ok THEN failed ELSE files_step
    /\ UNCHANGED <<clientVars, optVars, orig_i, exit_status>>

\* elbe control dump_file "{prjdir}" log.txt in the handler of a failed
\* get_files: whether it succeeds or not, sys.exit(168) or sys.exit(169).
build_dump_file ==
    /\ tag = "build"
    /\ ppc = "dump_file"
    /\ \E ok \in BOOLEAN : run("dump_file", <<"log.txt">>, ok)
    /\ ppc' = "exit"
    /\ exit_status' = failure_status(tag, files_step)
    /\ UNCHANGED <<clientVars, optVars, orig_i, failed>>

\* ------------------------------------------- pbuilderaction: the registry
\* The classes of the module, by their name and their tag attribute.
CreateAction == [name |-> "CreateAction", tag |-> "create"]

UpdateAction == [name |-> "UpdateAction", tag |-> "update"]

BuildAction == [name |-> "BuildAction", tag |-> "build"]

\* No class: the value of handler before PBuilderAction(node) returned.
NoAction == [name |-> "", tag |-> ""]

\* The names of the three pipelines.
PipelineNames == {"create", "update", "build"}

\* PBuilderAction.register: cls.actiondict[action.tag] = action
register(action) ==
    actiondict' = [t \in DOMAIN actiondict \cup {action.tag} |->
                       IF t = action.tag THEN action ELSE actiondict[t]]

\* PBuilderAction.register(CreateAction), the statement after the class
\* CreateAction (pbuilderaction.py:138).
register_CreateAction ==
    /\ scenario = "registry"
    /\ mpc = "after_CreateAction"
    /\ register(CreateAction)
    /\ mpc' = "after_UpdateAction"
    /\ UNCHANGED <<scenario, node, handler>>
    /\ UNCHANGED <<transferVars, setXmlVars, waitBusyVars, connectVars,
                   pipelineVars>>

\* The statement after the class UpdateAction (pbuilderaction.py:170),
\* which reads PBuilderAction.register(CreateAction).
register_after_UpdateAction ==
    /\ scenario = "registry"
    /\ mpc = "after_UpdateAction"
    /\ register(CreateAction)
    /\ mpc' = "after_BuildAction"
    /\ UNCHANGED <<scenario, node, handler>>
    /\ UNCHANGED <<transferVars, setXmlVars, waitBusyVars, connectVars,
                   pipelineVars>>

\* PBuilderAction.register(BuildAction), the last statement of the module
\* (pbuilderaction.py:318).
register_BuildAction ==
    /\ scenario = "registry"
    /\ mpc = "after_BuildAction"
    /\ register(BuildAction)
    /\ mpc' = "loaded"
    /\ UNCHANGED <<scenario, node, handler>>
    /\ UNCHANGED <<transferVars, setXmlVars, waitBusyVars, connectVars,
                   pipelineVars>>

\* PBuilderAction(node): __new__ looks the class up in actiondict, which
\* raises KeyError for a name that is not there, and makes an object of it.
PBuilderAction_new ==
    /\ scenario = "registry"
    /\ mpc = "loaded"
    /\ \E n \in PipelineNames :
           /\ node' = n
           /\ IF n \in DOMAIN actiondict
              THEN /\ handler' = actiondict[n]
                   /\ mpc' = "constructed"
              ELSE /\ handler' = handler
                   /\ mpc' = "KeyError"
    /\ UNCHANGED <<scenario, actiondict>>
    /\ UNCHANGED <<transferVars, setXmlVars, waitBusyVars, connectVars,
                   pipelineVars>>

\* ------------------------------------------------- properties of the transfer
\* No get_file request of the download has raised BadStatusLine.
NoTransportError == \A k \in DOMAIN outcomes : outcomes[k]

RECURSIVE DecodedPrefix(_)
\* The decoded content of the first n stored blocks, concatenated.
DecodedPrefix(n) ==
    IF n = 0 THEN <<>>
    ELSE DecodedPrefix(n - 1) \o a2b_base64(appended[n])

\* C1: round trip.  When the download of the uploaded blocks returns and no
\* request met a transport error, the bytes written to the destination are
\* exactly the bytes of the uploaded file, whatever its length.
C1_RoundTrip ==
    (dpc = "returned" /\ NoTransportError) => (fp = file /\ ~fpOpen)

\* C1 witness: a file of two full blocks (an exact multiple of the block
\* size, so the last stored block is empty) went up and came back.
C1_Witness ==
    /\ dpc = "returned"
    /\ NoTransportError
    /\ Len(file) = 2 * size
    /\ fp = file

\* C2 (as claimed): after a failed request with budget left the next request
\* is for the same chunk, after an answered one for the next chunk, and the
\* bytes written are the decoded chunks 0..part-1, each exactly once.
C2_RetrySameChunk ==
    /\ \A k \in 1..(Len(getReqs) - 1) :
           getReqs[k + 1] = getReqs[k] + (IF outcomes[k] THEN 1 ELSE 0)
    /\ dpc \in {"loop", "returned", "exit170"} =>
           /\ part <= Len(appended)
           /\ fp = DecodedPrefix(part)

\* Number of failed get_file requests for chunk i.
FailuresOf(i) ==
    Cardinality({k \in DOMAIN getReqs : getReqs[k] = i /\ ~outcomes[k]})

\* C3 (as claimed): the download aborts only when one single chunk has
\* failed RetryBudget times.
C3_BudgetPerChunk ==
    dpc = "exit170" => \E i \in 0..Len(getReqs) : FailuresOf(i) = RetryBudget

\* C4: without transport errors the get_file requests carry the indices
\* 0, 1, 2, ... in ascending order, there are never more than n + 1 of them
\* for n stored chunks, and once 'EndOfFile' has been received there are
\* exactly n + 1, the destination is closed and holds the n decoded chunks
\* and nothing else; the loop never continues past an 'EndOfFile' reply.
C4_RequestsAscending ==
    NoTransportError =>
        /\ \A k \in DOMAIN getReqs : getReqs[k] = k - 1
        /\ Len(getReqs) <= Len(appended) + 1
        /\ (dpc = "loop" /\ retBound) => ret # EndOfFile
        /\ dpc = "returned" =>
               /\ Len(getReqs) = Len(appended) + 1
               /\ ret = EndOfFile
               /\ ~fpOpen
               /\ fp = DecodedPrefix(Len(appended))

\* C4 witness: a remote file of three chunks was fetched with four requests.
C4_Witness ==
    /\ dpc = "returned"
    /\ NoTransportError
    /\ Len(appended) = 3
    /\ getReqs = <<0, 1, 2, 3>>

\* C5: the append calls carry the blocks of the file in file order; every
\* block before the last has exactly size bytes; while the loop runs every
\* block appended so far is full; when it has ended there are
\* floor(S / size) + 1 append calls and the last carries S mod size bytes.
C5_UploadBlocks ==
    /\ \A i \in DOMAIN appended :
           a2b_base64(appended[i]) = read(file, (i - 1) * size, size)
    /\ \A i \in 1..(Len(appended) - 1) : Len(a2b_base64(appended[i])) = size
    /\ upc = "loop" =>
           \A i \in DOMAIN appended : Len(a2b_base64(appended[i])) = size
    /\ upc = "done" =>
           /\ Len(appended) = (Len(file) \div size) + 1
           /\ Len(a2b_base64(appended[Len(appended)])) = Len(file) % size
           /\ DecodedPrefix(Len(appended)) = file

\* C5 witness: a file of exactly two blocks ended with a third, empty
\* append call.
C5_Witness ==
    /\ upc = "done"
    /\ Len(file) = 2 * size
    /\ Len(appended) = 3
    /\ appended[3] = <<10>>

\* --------------------------------------------------- properties of set_xml
\* C6 (as claimed): whatever the server replies, no two upload_file requests
\* carry the same non-negative chunk index.
C6_NoRepeatedIndex ==
    \A i, j \in DOMAIN upReqs :
        (i < j /\ upReqs[i].part >= 0) => upReqs[i].part # upReqs[j].part

\* The server never grants a non-negative index twice and never grants 0,
\* the index the client starts with.
GrantsDistinct ==
    /\ \A i \in DOMAIN upReplies : upReplies[i] # 0
    /\ \A i, j \in DOMAIN upReplies :
           (i < j /\ upReplies[i] >= 0) => upReplies[i] # upReplies[j]

\* C6 (amended): as long as the server grants every non-negative index at
\* most once and never grants 0, no two upload_file requests carry the same
\* non-negative chunk index.
C6_NoRepeatedIndexOfDistinctGrants == GrantsDistinct => C6_NoRepeatedIndex

\* C6 witness: three non-empty blocks went out under the start index and
\* two distinct granted indices.
C6_Witness ==
    /\ GrantsDistinct
    /\ Len(upReqs) >= 3
    /\ \A i \in 1..3 : upReqs[i].part >= 0

\* C7: a reply of -1 is the last reply of the upload and the last request
\* is the one it answered: set_xml has raised the RuntimeError and no
\* upload_file request follows.
C7_RejectAborts ==
    \A k \in DOMAIN upReplies :
        upReplies[k] = -1 =>
            /\ k = Len(upReplies)
            /\ Len(upReqs) = k
            /\ spc = "RuntimeError"

\* C7 witness: the second request, a block from the middle of the
\* document, was rejected.
C7_Witness ==
    /\ spc = "RuntimeError"
    /\ Len(upReqs) = 2
    /\ upReplies[2] = -1
    /\ x_pos < Len(xml)

\* C8: a reply of -2 is the last reply of the upload and the last request
\* is the one it answered: set_xml has returned normally and no
\* upload_file request follows, whether or not the document was read to
\* its end.
C8_CompleteReturns ==
    \A k \in DOMAIN upReplies :
        upReplies[k] = -2 =>
            /\ k = Len(upReplies)
            /\ Len(upReqs) = k
            /\ spc = "returned"

\* C8 witness: the server answered -2 to the first block while part of the
\* document was still unread.
C8_Witness ==
    /\ spc = "returned"
    /\ Len(upReqs) = 1
    /\ upReplies[1] = -2
    /\ x_pos < Len(xml)

\* ------------------------------------------------- properties of wait_busy
\* The items wait_busy yields for the replies r: the non-empty replies
\* other than the sentinel.
Progress(r) == SelectSeq(r, LAMBDA m : m # "" /\ m # ELBE_FINISH)

\* C9: the stream never holds the sentinel or an empty message; the items
\* yielded are the non-empty, non-sentinel replies in the order received;
\* the sentinel is the last reply received and ends the loop; after an
\* empty reply the loop polls again.
C9_StreamItems ==
    /\ \A i \in DOMAIN yielded : yielded[i] # "" /\ yielded[i] # ELBE_FINISH
    /\ yielded = Progress(received)
    /\ \A k \in DOMAIN received :
           received[k] = ELBE_FINISH => (k = Len(received) /\ wpc # "poll")
    /\ (received # <<>> /\ received[Len(received)] # ELBE_FINISH) =>
           wpc = "poll"

\* C9 witness: an empty reply, a progress message and the sentinel were
\* received, and the message alone was yielded.
C9_Witness ==
    /\ received = <<"", "build started", ELBE_FINISH>>
    /\ yielded = <<"build started">>
    /\ wpc = "status"

\* C10: get_project is requested at most once and only after the sentinel
\* was received; once wait_busy has ended it was requested exactly once;
\* it ends with CliError 191 exactly when the status is not 'build_done'
\* and without error exactly when it is.
C10_FinalStatus ==
    /\ nGetProject <= 1
    /\ nGetProject = 1 =>
           (received # <<>> /\ received[Len(received)] = ELBE_FINISH)
    /\ wpc \in {"poll", "status"} => (nGetProject = 0 /\ cli_code = 0)
    /\ wpc \in {"done", "CliError"} => nGetProject = 1
    /\ wpc = "CliError" => (prj_status # "build_done" /\ cli_code = 191)
    /\ wpc = "done" => (prj_status = "build_done" /\ cli_code = 0)

\* C10 witness: the stream ended normally and the status 'needs_build'
\* ended the operation with code 191.
C10_Witness ==
    /\ wpc = "CliError"
    /\ cli_code = 191
    /\ prj_status = "needs_build"
    /\ received[Len(received)] = ELBE_FINISH

\* ---------------------------------------------------- properties of connect
\* C11: nothing follows the Client(...) call that connected (no further
\* connection attempt); get_version and login are requested at most once;
\* login is requested only after a get_version that reported the client's
\* own version; a differing version ends connect with ElbeVersionMismatch
\* and without a login request.
C11_VersionGate ==
    /\ \A k \in DOMAIN attempts : attempts[k] => k = Len(attempts)
    /\ nVersion <= 1
    /\ nLogin <= 1
    /\ nLogin = 1 => (nVersion = 1 /\ server_version = elbe_version)
    /\ (nVersion = 1 /\ server_version # elbe_version) =>
           (cpc = "ElbeVersionMismatch" /\ nLogin = 0)

\* C11 witness: the second attempt of a client with the largest budget
\* connected, the remote reported another version and connect ended with
\* retries left.
C11_Witness ==
    /\ cpc = "ElbeVersionMismatch"
    /\ retries = MaxRetries
    /\ attempts = <<FALSE, TRUE>>
    /\ nLogin = 0

\* No Client(...) call has connected.
NoConnection == \A k \in DOMAIN attempts : ~attempts[k]

\* C12 (as claimed): when every attempt fails, no attempt follows the
\* retries-th failure and the error is propagated after exactly retries
\* failed attempts.
C12_RaisesAfterRetriesAttempts ==
    /\ NoConnection => Len(attempts) <= retries
    /\ cpc = "network_error" => Len(attempts) = retries

\* C12 (amended): when every attempt fails, connect propagates the error
\* after exactly retries + 1 failed attempts (the first attempt and retries
\* further ones): it keeps trying up to there, makes no attempt after it,
\* and requests neither get_version nor login.
C12_RaisesAfterRetriesPlusOneAttempts ==
    /\ (cpc # "idle" /\ NoConnection) =>
           /\ Len(attempts) <= retries + 1
           /\ nVersion = 0
           /\ nLogin = 0
           /\ cpc = (IF Len(attempts) = retries + 1
                     THEN "network_error" ELSE "loop")
    /\ cpc = "network_error" =>
           (NoConnection /\ Len(attempts) = retries + 1)

\* C12 witness: a client with a budget of two retries gave up after three
\* failed attempts.
C12_Witness ==
    /\ cpc = "network_error"
    /\ retries = 2
    /\ attempts = <<FALSE, FALSE, FALSE>>

\* ------------------------------------------------ properties of the pipelines
\* execute() has ended: by returning, by sys.exit or by an uncaught error.
Ended == ppc \in {"finished", "exit", "CalledProcessError"}

\* The steps of pipeline t that have a failure status.
Steps(t) == DOMAIN StatusTable[t]

\* The required project/configuration argument is missing.
MissingArgument ==
    \/ tag \in {"create", "build"} /\ ~opt_xmlfile /\ ~opt_project
    \/ tag = "update" /\ ~opt_project

\* C13: with the required argument missing no command is ever run, and the
\* pipeline ends with its usage status: create 155, update 158, build 163.
C13_UsageError ==
    MissingArgument =>
        /\ cmds = <<>>
        /\ ppc \in {"start", "exit"}
        /\ ppc = "exit" =>
               /\ failed = "usage"
               /\ exit_status = (CASE tag = "create" -> 155
                                   [] tag = "update" -> 158
                                   [] tag = "build" -> 163)

\* C13 witness: the build pipeline, given neither document nor project,
\* has ended with 163 and without a command.
C13_Witness ==
    /\ tag = "build"
    /\ ~opt_xmlfile
    /\ ~opt_project
    /\ ppc = "exit"
    /\ exit_status = 163
    /\ cmds = <<>>

\* C14: within a pipeline no two steps have the same failure status, and
\* the status a pipeline ended with is the status of the step that failed
\* and of no other step of that pipeline; the status of an uncaught error
\* is the status of no step.
C14_DistinctStatuses ==
    /\ \A t \in DOMAIN StatusTable : \A s1, s2 \in Steps(t) :
           s1 # s2 => failure_status(t, s1) # failure_status(t, s2)
    /\ ppc = "exit" =>
           /\ failed \in Steps(tag)
           /\ \A s \in Steps(tag) :
                  failure_status(tag, s) = exit_status <=> s = failed
    /\ ppc = "CalledProcessError" =>
           \A s \in Steps(tag) : failure_status(tag, s) # exit_status

\* C14 witness: the build pipeline ended with 166 after the push of the
\* source archive failed.
C14_Witness ==
    /\ tag = "build"
    /\ ppc = "exit"
    /\ failed = "set_pdebuild"
    /\ exit_status = 166
    /\ ~cmds[Len(cmds)].ok

\* C15 (as claimed): every failed step of the build pipeline, the removal
\* of the stale log included, ends the pipeline through sys.exit with the
\* status of that step; none leaves it through an uncaught error.
C15_EveryFailureMapped ==
    (tag = "build" /\ failed # "") =>
        /\ ppc \in {"dump_file", "exit"}
        /\ ppc = "exit" =>
               /\ failed \in Steps(tag)
               /\ exit_status = StatusTable[tag][failed]

\* C16 (as claimed): when the wait after the push of the source archive
\* has failed, the pipeline ends with the status of the wait step, 167,
\* and the last command run before it ended is the fetch of the log file.
C16_LogFetchedAfterFailedWait ==
    (tag = "build" /\ failed = "wait_busy" /\ Ended) =>
        /\ exit_status = 167
        /\ cmds[Len(cmds)].name = "dump_file"

\* C17: a command that failed is the last command run, but for the fetch
\* of the log file that follows a failed get_files; once a step has failed
\* the pipeline has ended or is at that fetch.
C17_FailureAborts ==
    /\ \A k \in DOMAIN cmds :
           ~cmds[k].ok =>
               \/ k = Len(cmds)
               \/ /\ k = Len(cmds) - 1
                  /\ cmds[k].name = "get_files"
                  /\ cmds[k + 1].name = "dump_file"
    /\ failed # "" => ppc \in {"dump_file", "exit", "CalledProcessError"}

\* C17 witness: of two orig files the first push failed; the pipeline
\* ended there with 165.
C17_Witness ==
    /\ tag = "build"
    /\ n_origfile = 2
    /\ orig_i = 1
    /\ failed = "set_orig"
    /\ ppc = "exit"
    /\ exit_status = 165
    /\ cmds[Len(cmds)].name = "set_orig"

\* C18: the update pipeline runs no command but update_pbuilder, and that
\* at most once; given a project it has run it exactly once when it ends,
\* it ends right after it, normally when the request succeeded and with
\* 159 when it failed.
C18_UpdateOnly ==
    tag = "update" =>
        /\ Len(cmds) <= 1
        /\ \A k \in DOMAIN cmds : cmds[k].name = "update_pbuilder"
        /\ Len(cmds) = 1 => Ended
        /\ (opt_project /\ Ended) =>
               /\ Len(cmds) = 1
               /\ IF cmds[1].ok
                  THEN ppc = "finished" /\ exit_status = 0
                  ELSE ppc = "exit" /\ exit_status = 159

\* C18 witness: the update request of a given project was accepted and the
\* pipeline returned.
C18_Witness ==
    /\ tag = "update"
    /\ opt_project
    /\ ppc = "finished"
    /\ Len(cmds) = 1
    /\ cmds[1].ok

\* ------------------------------------------- further properties of set_xml
\* C19: every upload_file request carries the encoded block read at its
\* place in the document, and with it -1 exactly when that block is empty,
\* else the reply to the request before it (0 for the first request).
C19_IndexEchoed ==
    \A k \in DOMAIN upReqs :
        /\ upReqs[k].blob = b2a_base64(read(xml, (k - 1) * size, size))
        /\ upReqs[k].part = -1 <=> upReqs[k].blob = b2a_base64(<<>>)
        /\ upReqs[k].part # -1 =>
               upReqs[k].part = (IF k = 1 THEN 0 ELSE upReplies[k - 1])

\* C19 witness: the server granted 2 to the first request; the second
\* carried 2 and the third, an empty block, carried -1.
C19_Witness ==
    /\ Len(upReqs) >= 3
    /\ upReplies[1] = 2
    /\ upReqs[2].part = 2
    /\ upReqs[3].part = -1

\* ----------------------------------------- further properties of wait_busy
\* The sentinel is the last reply received.
SentinelReceived ==
    received # <<>> /\ received[Len(received)] = ELBE_FINISH

\* C20: a poll that raises socket.error leaves wait_busy polling, yields
\* nothing and requests no status; and once the sentinel has been received
\* the status is eventually requested, whatever came before.
C20_SocketErrorRetried ==
    /\ [][nErrors' # nErrors =>
              /\ wpc' = "poll"
              /\ yielded' = yielded
              /\ received' = received
              /\ nGetProject' = nGetProject]_vars
    /\ (SentinelReceived ~> nGetProject = 1)

\* C20 witness: two socket errors and an empty reply came before the
\* sentinel, and the status was requested.
C20_Witness ==
    /\ nErrors = 2
    /\ received = <<"", ELBE_FINISH>>
    /\ nGetProject = 1

\* -------------------------------------- further properties of the transfer
\* The get_file requests that raised BadStatusLine.
Failures == {k \in DOMAIN outcomes : ~outcomes[k]}

\* C21: download_file ends with 170 exactly when the retry budget is used
\* up; the request that used it up is the last one, the destination file
\* is closed then, and the step that gives up leaves what was written in
\* it.
C21_BudgetExhausted ==
    /\ [](/\ dpc = "exit170" <=> (dpc # "idle" /\ retry = 0)
          /\ Cardinality(Failures) = RetryBudget => dpc = "exit170"
          /\ dpc = "exit170" =>
                 /\ Cardinality(Failures) = RetryBudget
                 /\ Len(getReqs) \in Failures
                 /\ ~fpOpen)
    /\ [][dpc' = "exit170" => fp' = fp]_vars

\* C21 witness: the budget was used up after chunks had been written; the
\* file is closed and holds them.
C21_Witness ==
    /\ dpc = "exit170"
    /\ ~fpOpen
    /\ fp # <<>>
    /\ Len(getReqs) = RetryBudget + 1

\* ------------------------------------ further properties of the pipelines
\* The commands by which the build pipeline obtains its project.
ObtainProject ==
    IF opt_xmlfile THEN <<"create_project", "build_pbuilder", "wait_busy">>
    ELSE <<"rm_log">>

\* The commands of a whole run of the build pipeline, in the order claimed;
\* the fetch of the log file comes last, after a failed get_files.
BuildOrder ==
    ObtainProject \o <<"tar">> \o [i \in 1..n_origfile |-> "set_orig"]
        \o <<"set_pdebuild", "wait_busy", "get_files", "dump_file">>

\* C22: the commands the build pipeline has run are always a beginning of
\* that order, the orig files pushed in the order given; the source
\* archive is pushed only when everything before it succeeded, get_files
\* is run only after a successful wait, and a run that finished has run
\* every command but the fetch of the log.
C22_BuildOrder ==
    tag = "build" =>
        /\ Len(cmds) <= Len(BuildOrder)
        /\ \A k \in DOMAIN cmds :
               /\ cmds[k].name = BuildOrder[k]
               /\ cmds[k].name = "set_orig" =>
                      cmds[k].args = <<k - Len(ObtainProject) - 1>>
               /\ cmds[k].name = "set_pdebuild" =>
                      \A j \in 1..(k - 1) : cmds[j].ok
               /\ cmds[k].name = "get_files" =>
                      cmds[k - 1].name = "wait_busy" /\ cmds[k - 1].ok
               /\ cmds[k].name = "dump_file" => ~cmds[k - 1].ok
        /\ ppc = "finished" =>
               /\ Len(cmds) = Len(BuildOrder) - 1
               /\ \A k \in DOMAIN cmds : cmds[k].ok

\* C22 witness: a build of an existing project with two orig files ran to
\* its end.
C22_Witness ==
    /\ tag = "build"
    /\ ~opt_xmlfile
    /\ n_origfile = 2
    /\ ppc = "finished"
    /\ Len(cmds) = 7
    /\ cmds[3].args = <<1>>
    /\ cmds[4].args = <<2>>
    /\ cmds[5].name = "set_pdebuild"

\* The commands of the creation sub-sequence of the create pipeline.
CreateOrder ==
    <<"preprocess", "create_project", "set_xml", "build_pbuilder",
      "wait_busy">>

\* C23 (as claimed): given a configuration document, the build pipeline
\* begins with the commands of the create pipeline, in the same order, and
\* requests the pbuilder build with the cross and cache options.
C23_SameCreationSequence ==
    (tag \in {"create", "build"} /\ opt_xmlfile) =>
        \A k \in DOMAIN cmds :
            k <= Len(CreateOrder) =>
                /\ cmds[k].name = CreateOrder[k]
                /\ cmds[k].name = "build_pbuilder" =>
                       cmds[k].args = <<crossopt, ccacheopt>>

\* ------------------------------------------------ properties of the registry
\* C24 (as claimed): once the module is loaded the registry has an entry
\* for each of create, update and build, each entry is the class of that
\* tag, and PBuilderAction(node) makes the handler whose tag is node.
C24_RegistryComplete ==
    mpc \in {"loaded", "constructed", "KeyError"} =>
        /\ DOMAIN actiondict = PipelineNames
        /\ \A t \in DOMAIN actiondict : actiondict[t].tag = t
        /\ mpc # "KeyError"
        /\ mpc = "constructed" => handler.tag = node

\* ------------------------------------- properties of the set_xml upload loop
\* C25: the upload loop of set_xml has ended exactly when the last reply
\* is -1 or -2, and no earlier reply is; every request made at or past the
\* end of the document is an empty block with the final marker; after
\* non-negative replies alone the loop is still running and can send its
\* next block, wherever the document ends.
C25_EndsOnlyOnReply ==
    /\ spc \in {"returned", "RuntimeError"} <=>
           (upReplies # <<>> /\ upReplies[Len(upReplies)] \in {-1, -2})
    /\ \A k \in DOMAIN upReplies : k < Len(upReplies) => upReplies[k] >= 0
    /\ \A k \in DOMAIN upReqs :
           (k - 1) * size >= Len(xml) =>
               upReqs[k] = [blob |-> b2a_base64(<<>>), part |-> -1]
    /\ (upReplies # <<>> /\ \A k \in DOMAIN upReplies : upReplies[k] >= 0) =>
           spc = "loop"
    /\ (spc = "loop" /\ Len(upReqs) < MaxRequests) => ENABLED set_xml_block

\* C25 witness: the document fits in one block; two empty blocks with the
\* final marker were answered with an index and followed by another, and
\* the loop ended when -2 came.
C25_Witness ==
    /\ xml # <<>>
    /\ Len(xml) < size
    /\ Len(upReqs) = 4
    /\ upReqs[2].part = -1
    /\ upReplies[2] >= 0
    /\ upReqs[3].part = -1
    /\ upReplies[3] >= 0
    /\ upReqs[4].part = -1
    /\ upReplies[4] = -2
    /\ spc = "returned"

\* ------------------------------------------------------------ specification
\* The state of each operation before it is called.
TransferIdle ==
    /\ file = <<>>
    /\ f_pos = 0
    /\ upc = "idle"
    /\ appended = <<>>
    /\ dpc = "idle"
    /\ part = 0
    /\ retry = RetryBudget
    /\ ret = <<>>
    /\ retBound = FALSE
    /\ fp = <<>>
    /\ fpOpen = FALSE
    /\ getReqs = <<>>
    /\ outcomes = <<>>

SetXmlIdle ==
    /\ xml = <<>>
    /\ has_target = FALSE
    /\ x_pos = 0
    /\ xpart = 0
    /\ spc = "idle"
    /\ upReqs = <<>>
    /\ upReplies = <<>>

WaitBusyIdle ==
    /\ wpc = "idle"
    /\ received = <<>>
    /\ nPolls = 0
    /\ nErrors = 0
    /\ yielded = <<>>
    /\ nGetProject = 0
    /\ prj_status = ""
    /\ cli_code = 0

ConnectIdle ==
    /\ cpc = "idle"
    /\ retries = 0
    /\ current_retries = 0
    /\ attempts = <<>>
    /\ server_version = ""
    /\ nVersion = 0
    /\ nLogin = 0

PipelineIdle ==
    /\ tag = ""
    /\ opt_xmlfile = FALSE
    /\ opt_project = FALSE
    /\ opt_cross = FALSE
    /\ opt_noccache = FALSE
    /\ opt_skip_download = FALSE
    /\ n_origfile = 0
    /\ orig_i = 0
    /\ ppc = "idle"
    /\ cmds = <<>>
    /\ failed = ""
    /\ exit_status = 0

\* A local file is uploaded block by block, then downloaded again.
RegistryIdle ==
    /\ mpc = "idle"
    /\ actiondict = <<>>
    /\ node = ""
    /\ handler = NoAction

InitTransfer ==
    /\ scenario = "transfer"
    /\ file \in SeqsUpTo(ByteVals, MaxFileLen)
    /\ f_pos = 0
    /\ upc = "loop"
    /\ appended = <<>>
    /\ dpc = "idle"
    /\ part = 0
    /\ retry = RetryBudget
    /\ ret = <<>>
    /\ retBound = FALSE
    /\ fp = <<>>
    /\ fpOpen = FALSE
    /\ getReqs = <<>>
    /\ outcomes = <<>>
    /\ SetXmlIdle
    /\ WaitBusyIdle
    /\ ConnectIdle
    /\ PipelineIdle
    /\ RegistryIdle

\* A configuration document is uploaded with set_xml.
InitSetXml ==
    /\ scenario = "set_xml"
    /\ xml \in SeqsUpTo(ByteVals, MaxXmlLen)
    /\ has_target \in BOOLEAN
    /\ x_pos = 0
    /\ xpart = 0
    /\ spc = "start"
    /\ upReqs = <<>>
    /\ upReplies = <<>>
    /\ TransferIdle
    /\ WaitBusyIdle
    /\ ConnectIdle
    /\ PipelineIdle
    /\ RegistryIdle

\* The busy stream of a project is consumed to its end.
InitWaitBusy ==
    /\ scenario = "wait_busy"
    /\ wpc = "poll"
    /\ received = <<>>
    /\ nPolls = 0
    /\ nErrors = 0
    /\ yielded = <<>>
    /\ nGetProject = 0
    /\ prj_status = ""
    /\ cli_code = 0
    /\ TransferIdle
    /\ SetXmlIdle
    /\ ConnectIdle
    /\ PipelineIdle
    /\ RegistryIdle

\* A client constructed with a retry budget connects.
InitConnect ==
    /\ scenario = "connect"
    /\ cpc = "loop"
    /\ retries \in 0..MaxRetries
    /\ current_retries = 0
    /\ attempts = <<>>
    /\ server_version = ""
    /\ nVersion = 0
    /\ nLogin = 0
    /\ TransferIdle
    /\ SetXmlIdle
    /\ WaitBusyIdle
    /\ PipelineIdle
    /\ RegistryIdle

\* PBuilderAction(node).execute(opt, args) for one of the three pipelines.
InitPipeline ==
    /\ scenario = "pipeline"
    /\ tag \in {"create", "update", "build"}
    /\ opt_xmlfile \in BOOLEAN
    /\ opt_project \in BOOLEAN
    /\ opt_cross \in BOOLEAN
    /\ opt_noccache \in BOOLEAN
    /\ opt_skip_download \in BOOLEAN
    /\ n_origfile \in 0..MaxOrig
    /\ orig_i = 0
    /\ ppc = "start"
    /\ cmds = <<>>
    /\ failed = ""
    /\ exit_status = 0
    /\ TransferIdle
    /\ SetXmlIdle
    /\ WaitBusyIdle
    /\ ConnectIdle
    /\ RegistryIdle

\* wait_busy alone, with the step after the loop taken once it can be: the
\* status query follows the loop in the same thread.
\* The loading of the module pbuilderaction: the class PBuilderAction with
\* its empty actiondict exists, the first register statement comes next.
InitRegistry ==
    /\ scenario = "registry"
    /\ mpc = "after_CreateAction"
    /\ actiondict = <<>>
    /\ node = ""
    /\ handler = NoAction
    /\ TransferIdle
    /\ SetXmlIdle
    /\ WaitBusyIdle
    /\ ConnectIdle
    /\ PipelineIdle

NextWaitBusy ==
    \/ wait_busy_poll
    \/ wait_busy_socket_error
    \/ wait_busy_get_project

SpecWaitBusy ==
    InitWaitBusy /\ [][NextWaitBusy]_vars /\ WF_vars(wait_busy_get_project)

Init ==
    \/ InitTransfer
    \/ InitSetXml
    \/ InitWaitBusy
    \/ InitConnect
    \/ InitPipeline
    \/ InitRegistry

Next ==
    \/ upload_file_block
    \/ download_file
    \/ download_reply
    \/ download_BadStatusLine
    \/ set_xml
    \/ set_xml_block
    \/ wait_busy_poll
    \/ wait_busy_socket_error
    \/ wait_busy_get_project
    \/ connect_Client_raises
    \/ connect_Client
    \/ connect_get_version
    \/ connect_login
    \/ create_execute
    \/ create_preprocess
    \/ create_create_project
    \/ create_set_xml
    \/ create_build_pbuilder
    \/ create_wait_busy
    \/ update_execute
    \/ update_update_pbuilder
    \/ build_execute
    \/ build_create_project
    \/ build_build_pbuilder
    \/ build_wait_busy_pbuilder
    \/ build_rm_log
    \/ build_tar
    \/ build_set_orig
    \/ build_set_pdebuild
    \/ build_wait_busy
    \/ build_get_files
    \/ build_dump_file
    \/ register_CreateAction
    \/ register_after_UpdateAction
    \/ register_BuildAction
    \/ PBuilderAction_new

Spec == Init /\ [][Next]_vars
====
